---- MODULE Spec2Model ----
(***************************************************************************)
(* Model of parse_pdf (src/main.py): the field-assignment state machine    *)
(* that turns the word stream of a two-column PDF into QuizCard records.   *)
(* Strings are TLA+ strings; a word is a non-empty string without          *)
(* whitespace, as produced by line.split().                                *)
(***************************************************************************)
EXTENDS Integers, Sequences, FiniteSets, TLC

VARIABLES
    cards,          \* list of emitted QuizCard objects (parse_pdf: cards)
    current_card,   \* the QuizCard under construction
    current_field,  \* "none" (Python None) or the name of the open field
    diag,           \* lines printed on the console
    word,           \* loop variable: the word last consumed ("" before any)
    n,              \* number of words consumed so far
    pc,             \* "reading" inside the loops of parse_pdf, "done" after
                    \* its return; in a run of main also "main" before the
                    \* extension check, "error" after its ValueError and
                    \* "saved" after the output was written
    script,         \* the document's words when they are fixed in advance
    layout,         \* the document's pages, each a pair of column texts
    col,            \* number of columns whose words are exhausted
    pos,            \* number of words consumed of the current column
    stale,          \* history: fields whose text predates a Type: word that
                    \* arrived while the card was incomplete
    args,           \* main: the parsed command line (out_file, output_type)
    written         \* main: what was written to the output file

vars ==
    <<cards, current_card, current_field, diag, word, n, pc, script, layout,
      col, pos, stale, args, written>>

(***************************************************************************)
(* Bounds and the word universes                                           *)
(***************************************************************************)
MaxTokens == 5

Tokens ==
    { "Type:SIT", "Type:", "Ref:Jn", "Ref:", "3:16", "Club", "Club:",
      "Clubhouse", "Question:Who", "Question:", "Answer:Yes", "Answer:",
      "John", "3:16-17", "Answer:3:16" }

MaxDoc == 5

DocTokens ==
    { "Type:SIT", "Ref:Jn", "John", "3:16", "Club", "Question:Who",
      "Answer:Yes" }

MaxPages == 2

\* texts the extractor returns for one column ("" for an empty column)
ColumnTexts ==
    { "", " \n", "Type:SIT", "Type:SIT Ref:Jn",
      "Ref:Jn\nQuestion:Who  Answer:Yes", "Question:Who  Answer:Yes",
      "Type:B Ref:Jn Question:Who\nAnswer:Yes" }

MaxCont == 2

ContWords == { "John", "East" }

Example ==
    << "Type:SIT", "Ref:", "John", "3:16", "extra", "words", "Club", "East",
       "Question:", "Who", "wrote", "this?", "Answer:", "John" >>

(***************************************************************************)
(* String helpers (Python str methods used by the code)                    *)
(***************************************************************************)
CharAt(s, i) == SubSeq(s, i, i)

Whitespace == { " ", "\t", "\n", "\r" }

Digits == { "0", "1", "2", "3", "4", "5", "6", "7", "8", "9" }

\* str.startswith(prefix)
StartsWith(s, prefix) ==
    /\ Len(s) >= Len(prefix)
    /\ SubSeq(s, 1, Len(prefix)) = prefix

\* s[len(prefix):]
DropPrefix(s, prefix) == SubSeq(s, Len(prefix) + 1, Len(s))

RECURSIVE LStrip(_)
LStrip(s) ==
    IF Len(s) > 0 /\ CharAt(s, 1) \in Whitespace
    THEN LStrip(SubSeq(s, 2, Len(s)))
    ELSE s

RECURSIVE RStrip(_)
RStrip(s) ==
    IF Len(s) > 0 /\ CharAt(s, Len(s)) \in Whitespace
    THEN RStrip(SubSeq(s, 1, Len(s) - 1))
    ELSE s

\* str.strip()
Strip(s) == LStrip(RStrip(s))

\* mutant: the pattern must span the whole word (fullmatch)
VerseFullMatch(w) ==
    \E i \in 2..(Len(w) - 1) :
        /\ CharAt(w, i) = ":"
        /\ \A j \in 1..Len(w) : j # i => CharAt(w, j) \in Digits

\* re.compile(r"\d+:\d+").search(word): some digit, colon, digit substring
VerseSearch(w) ==
    \E i \in 1..(Len(w) - 2) :
        /\ CharAt(w, i) \in Digits
        /\ CharAt(w, i + 1) = ":"
        /\ CharAt(w, i + 2) \in Digits

(***************************************************************************)
(* QuizCard                                                                *)
(***************************************************************************)
\* QuizCard(): every field defaults to the empty string
QuizCard ==
    [ card_type |-> "", ref |-> "", extra_info |-> "", club |-> "",
      question |-> "", answer |-> "" ]

\* QuizCard.__str__
CardStr(c) ==
    "Type: " \o c.card_type \o "\n" \o
    "Ref: " \o c.ref \o "\n" \o
    "Extra Info: " \o c.extra_info \o "\n" \o
    "Club: " \o c.club \o "\n" \o
    "Q: " \o c.question \o "\n" \o
    "A: " \o c.answer \o "\n"

\* mutant: the fields are written as they are stored
to_dict_unstripped(c) ==
    [ Type |-> c.card_type, Ref |-> c.ref, ExtraInfo |-> c.extra_info,
      Club |-> c.club, Question |-> c.question, Answer |-> c.answer ]

\* QuizCard.to_dict
to_dict(c) ==
    [ Type |-> Strip(c.card_type), Ref |-> Strip(c.ref),
      ExtraInfo |-> Strip(c.extra_info), Club |-> Strip(c.club),
      Question |-> Strip(c.question), Answer |-> Strip(c.answer) ]

\* mutant: the answer is not tested
IsCompleteNoAnswer(c) ==
    /\ c.card_type # ""
    /\ c.ref # ""
    /\ c.question # ""

\* the validity test of both finalize points (truthiness of four fields)
IsComplete(c) ==
    /\ c.card_type # ""
    /\ c.ref # ""
    /\ c.question # ""
    /\ c.answer # ""

(***************************************************************************)
(* The loop body of parse_pdf.  st is the cursor of the loops:             *)
(* [cards, current_card, current_field]; each branch returns the new one.  *)
(***************************************************************************)
\* mutant: the type is overwritten before the complete card is saved
TypeHeaderOverwriteFirst(st, w) ==
    LET typed == [st.current_card EXCEPT
                     !.card_type = Strip(DropPrefix(w, "Type:"))] IN
    IF IsComplete(st.current_card)
    THEN [ cards |-> Append(st.cards, typed),
           current_card |->
               [QuizCard EXCEPT !.card_type = Strip(DropPrefix(w, "Type:"))],
           current_field |-> "type" ]
    ELSE [ cards |-> st.cards, current_card |-> typed,
           current_field |-> "type" ]

\* mutant: a Type: word saves the card without the completeness test
TypeHeaderSavesUnchecked(st, w) ==
    [ cards |-> Append(st.cards, st.current_card),
      current_card |->
          [QuizCard EXCEPT !.card_type = Strip(DropPrefix(w, "Type:"))],
      current_field |-> "type" ]

\* mutant: a Type: word always starts a new card
TypeHeaderAlwaysNew(st, w) ==
    [ cards |-> IF IsComplete(st.current_card)
                THEN Append(st.cards, st.current_card)
                ELSE st.cards,
      current_card |->
          [QuizCard EXCEPT !.card_type = Strip(DropPrefix(w, "Type:"))],
      current_field |-> "type" ]

\* if word.startswith("Type:")
TypeHeader(st, w) ==
    IF IsComplete(st.current_card)
    THEN [ cards |-> Append(st.cards, st.current_card),
           current_card |->
               [QuizCard EXCEPT !.card_type = Strip(DropPrefix(w, "Type:"))],
           current_field |-> "type" ]
    ELSE [ cards |-> st.cards,
           current_card |->
               [st.current_card EXCEPT
                   !.card_type = Strip(DropPrefix(w, "Type:"))],
           current_field |-> "type" ]

\* mutant: the suffix is added to the old reference
RefHeaderKeepsOld(st, w) ==
    [st EXCEPT !.current_field = "ref",
               !.current_card.ref = @ \o Strip(DropPrefix(w, "Ref:"))]

\* elif word.startswith("Ref:")
RefHeader(st, w) ==
    [st EXCEPT !.current_field = "ref",
               !.current_card.ref = Strip(DropPrefix(w, "Ref:"))]

\* elif current_field == "ref" and re.compile(r"\d+:\d+").search(word)
VerseMarker(st, w) ==
    [st EXCEPT !.current_card.ref = @ \o " " \o w,
               !.current_field = "extra_info"]

\* elif word.startswith("Club")
ClubHeader(st, w) ==
    [st EXCEPT !.current_field = "club",
               !.current_card.club = Strip(DropPrefix(w, "Club"))]

\* elif word.startswith("Question:")
QuestionHeader(st, w) ==
    [st EXCEPT !.current_field = "question",
               !.current_card.question = Strip(DropPrefix(w, "Question:"))]

\* elif word.startswith("Answer:")
AnswerHeader(st, w) ==
    [st EXCEPT !.current_field = "answer",
               !.current_card.answer = Strip(DropPrefix(w, "Answer:"))]

\* mutant: the word is put in front of the text
AppendWordFront(text, w) == w \o " " \o text

\* field += " " + word
AppendWord(text, w) == text \o " " \o w

\* mutant: with no field open the word goes to the type
ContinuationDefaultsToType(st, w) ==
    CASE st.current_field = "ref" ->
             [st EXCEPT !.current_card.ref = AppendWord(@, w)]
      [] st.current_field = "extra_info" ->
             [st EXCEPT !.current_card.extra_info = AppendWord(@, w)]
      [] st.current_field = "club" ->
             [st EXCEPT !.current_card.club = AppendWord(@, w)]
      [] st.current_field = "question" ->
             [st EXCEPT !.current_card.question = AppendWord(@, w)]
      [] st.current_field = "answer" ->
             [st EXCEPT !.current_card.answer = AppendWord(@, w)]
      [] OTHER -> [st EXCEPT !.current_card.card_type = AppendWord(@, w)]

\* else: append the word to the open field, if any
Continuation(st, w) ==
    CASE st.current_field = "type" ->
             [st EXCEPT !.current_card.card_type = AppendWord(@, w)]
      [] st.current_field = "ref" ->
             [st EXCEPT !.current_card.ref = AppendWord(@, w)]
      [] st.current_field = "extra_info" ->
             [st EXCEPT !.current_card.extra_info = AppendWord(@, w)]
      [] st.current_field = "club" ->
             [st EXCEPT !.current_card.club = AppendWord(@, w)]
      [] st.current_field = "question" ->
             [st EXCEPT !.current_card.question = AppendWord(@, w)]
      [] st.current_field = "answer" ->
             [st EXCEPT !.current_card.answer = AppendWord(@, w)]
      [] OTHER -> st

\* mutant: the verse rule does not test that the reference is open
ProcessWordVerseAnywhere(st, w) ==
    IF StartsWith(w, "Type:") THEN TypeHeader(st, w)
    ELSE IF StartsWith(w, "Ref:") THEN RefHeader(st, w)
    ELSE IF VerseSearch(w) THEN VerseMarker(st, w)
    ELSE IF StartsWith(w, "Club") THEN ClubHeader(st, w)
    ELSE IF StartsWith(w, "Question:") THEN QuestionHeader(st, w)
    ELSE IF StartsWith(w, "Answer:") THEN AnswerHeader(st, w)
    ELSE Continuation(st, w)

\* the if/elif chain, first match wins
ProcessWord(st, w) ==
    IF StartsWith(w, "Type:") THEN TypeHeader(st, w)
    ELSE IF StartsWith(w, "Ref:") THEN RefHeader(st, w)
    ELSE IF st.current_field = "ref" /\ VerseSearch(w) THEN VerseMarker(st, w)
    ELSE IF StartsWith(w, "Club") THEN ClubHeader(st, w)
    ELSE IF StartsWith(w, "Question:") THEN QuestionHeader(st, w)
    ELSE IF StartsWith(w, "Answer:") THEN AnswerHeader(st, w)
    ELSE Continuation(st, w)

\* the words of a list consumed in order (the nested for loops)
RECURSIVE ProcessWords(_, _)
ProcessWords(st, ws) ==
    IF ws = << >> THEN st
    ELSE ProcessWords(ProcessWord(st, Head(ws)), Tail(ws))

\* mutant: the last card is put in front of the list
FinalizeInFront(cs, c, d) ==
    IF IsComplete(c)
    THEN [ cards |-> <<c>> \o cs, diag |-> d ]
    ELSE [ cards |-> cs,
           diag |-> Append(d, "Incomplete card: " \o CardStr(c)) ]

\* mutant: an incomplete last card is dropped without a message
FinalizeSilent(cs, c, d) ==
    IF IsComplete(c)
    THEN [ cards |-> Append(cs, c), diag |-> d ]
    ELSE [ cards |-> cs, diag |-> d ]

\* the check after the loops: keep the last card or print it
Finalize(cs, c, d) ==
    IF IsComplete(c)
    THEN [ cards |-> Append(cs, c), diag |-> d ]
    ELSE [ cards |-> cs,
           diag |-> Append(d, "Incomplete card: " \o CardStr(c)) ]

(***************************************************************************)
(* History of the run (not program state)                                  *)
(***************************************************************************)
OtherFields == { "ref", "extra_info", "club", "question", "answer" }

\* the field a word overwrites, as decided by the if/elif chain
Overwritten(field, w) ==
    IF StartsWith(w, "Type:") THEN { }
    ELSE IF StartsWith(w, "Ref:") THEN { "ref" }
    ELSE IF field = "ref" /\ VerseSearch(w) THEN { }
    ELSE IF StartsWith(w, "Club") THEN { "club" }
    ELSE IF StartsWith(w, "Question:") THEN { "question" }
    ELSE IF StartsWith(w, "Answer:") THEN { "answer" }
    ELSE { }

\* fields of the card in progress after w that hold text from before a
\* Type: word which found the card incomplete
StaleAfter(w) ==
    IF StartsWith(w, "Type:")
    THEN IF IsComplete(current_card)
         THEN { }
         ELSE { f \in OtherFields : current_card[f] # "" }
    ELSE stale \ Overwritten(current_field, w)

(***************************************************************************)
(* Actions                                                                 *)
(***************************************************************************)
Cursor ==
    [ cards |-> cards, current_card |-> current_card,
      current_field |-> current_field ]

\* state at the top of parse_pdf, before the first word
InitCursor ==
    /\ cards = << >>
    /\ current_card = QuizCard
    /\ current_field = "none"
    /\ diag = << >>
    /\ word = ""
    /\ n = 0
    /\ pc = "reading"
    /\ col = 0
    /\ pos = 0
    /\ stale = { }

\* one iteration of `for word in words`
Consume(w) ==
    /\ LET st == ProcessWord(Cursor, w) IN
          /\ cards' = st.cards
          /\ current_card' = st.current_card
          /\ current_field' = st.current_field
    /\ word' = w
    /\ n' = n + 1
    /\ stale' = StaleAfter(w)
    /\ UNCHANGED <<diag, pc, script, layout, args, written>>

\* parse_pdf run on its own: no command line, nothing written
NoArgs == [ out_file |-> "", output_type |-> "" ]

NotWritten == [ kind |-> "none", file |-> "", rows |-> << >> ]

Init ==
    /\ InitCursor
    /\ script = << >>
    /\ layout = << >>
    /\ args = NoArgs
    /\ written = NotWritten

\* the next word of the document, chosen freely
Feed ==
    /\ pc = "reading"
    /\ n < MaxTokens
    /\ \E w \in Tokens : Consume(w)
    /\ UNCHANGED <<col, pos>>

\* mutant: the function returns while words are left
EndOfInputEarly ==
    /\ pc = "reading"
    /\ LET r == Finalize(cards, current_card, diag) IN
          /\ cards' = r.cards
          /\ diag' = r.diag
    /\ pc' = "done"
    /\ UNCHANGED <<current_card, current_field, word, n, script, layout, col,
                   pos, stale, args, written>>

\* the loops are exhausted: finalize and return cards
EndOfInput ==
    /\ pc = "reading"
    /\ n >= Len(script)
    /\ col >= 2 * Len(layout)
    /\ LET r == Finalize(cards, current_card, diag) IN
          /\ cards' = r.cards
          /\ diag' = r.diag
    /\ pc' = "done"
    /\ UNCHANGED <<current_card, current_field, word, n, script, layout, col,
                   pos, stale, args, written>>

Next == Feed \/ EndOfInput

Spec == Init /\ [][Next]_vars

(***************************************************************************)
(* The same machine run over a document whose words are fixed in advance   *)
(***************************************************************************)
RECURSIVE SubSequences(_)
SubSequences(s) ==
    IF s = << >> THEN { << >> }
    ELSE LET rest == SubSequences(Tail(s)) IN
             rest \cup { <<Head(s)>> \o t : t \in rest }

SeqsUpTo(S, k) == UNION { [1..m -> S] : m \in 0..k }

\* the example card with any of its words missing, and all short documents
Docs == SubSequences(Example) \cup SeqsUpTo(DocTokens, MaxDoc)

InitDoc ==
    /\ InitCursor
    /\ script \in Docs
    /\ layout = << >>
    /\ args = NoArgs
    /\ written = NotWritten

\* the next word of the fixed document
FeedScript ==
    /\ pc = "reading"
    /\ n < Len(script)
    /\ Consume(script[n + 1])
    /\ UNCHANGED <<col, pos>>

NextDoc == FeedScript \/ EndOfInput

SpecDoc == InitDoc /\ [][NextDoc]_vars

\* a for loop over a finite list takes its next iteration or ends; nothing
\* in the loop body waits or blocks
FairSpecDoc == SpecDoc /\ WF_vars(NextDoc)

(***************************************************************************)
(* The page and column loops over the texts of a two-column document       *)
(***************************************************************************)
\* the pieces of s between occurrences of a separator character
RECURSIVE SplitOn(_, _, _)
SplitOn(s, seps, piece) ==
    IF s = "" THEN <<piece>>
    ELSE IF CharAt(s, 1) \in seps
         THEN <<piece>> \o SplitOn(SubSeq(s, 2, Len(s)), seps, "")
         ELSE SplitOn(SubSeq(s, 2, Len(s)), seps, piece \o CharAt(s, 1))

\* text.splitlines()
SplitLines(text) ==
    IF text = "" THEN << >> ELSE SplitOn(text, { "\n", "\r" }, "")

\* line.split(): the maximal runs of non-whitespace characters
Split(line) == SelectSeq(SplitOn(line, Whitespace, ""), LAMBDA p : p # "")

\* the words of the lines, blank lines skipped
RECURSIVE LinesWords(_)
LinesWords(lines) ==
    IF lines = << >> THEN << >>
    ELSE LET line == Strip(Head(lines)) IN
             (IF line # "" THEN Split(line) ELSE << >>)
                 \o LinesWords(Tail(lines))

\* the words one column contributes: none when extract_text() is empty
ColumnWords(text) ==
    IF text # "" THEN LinesWords(SplitLines(text)) ELSE << >>

\* ColumnWords of every column text, computed once
WordsOf == [ text \in ColumnTexts |-> ColumnWords(text) ]

\* documents of up to MaxPages pages
Layouts == SeqsUpTo(ColumnTexts \X ColumnTexts, MaxPages)

\* text of the column being read: column col % 2 of page col \div 2
ColumnText == layout[(col \div 2) + 1][(col % 2) + 1]

InitPages ==
    /\ InitCursor
    /\ script = << >>
    /\ layout \in Layouts
    /\ args = NoArgs
    /\ written = NotWritten

\* the next word of the current column
FeedColumn ==
    /\ pc = "reading"
    /\ col < 2 * Len(layout)
    /\ pos < Len(WordsOf[ColumnText])
    /\ Consume(WordsOf[ColumnText][pos + 1])
    /\ pos' = pos + 1
    /\ col' = col

\* mutant: the cursor is reset when a new column starts
NextColumnResetsCursor ==
    /\ pc = "reading"
    /\ col < 2 * Len(layout)
    /\ pos = Len(WordsOf[ColumnText])
    /\ col' = col + 1
    /\ pos' = 0
    /\ current_card' = QuizCard
    /\ current_field' = "none"
    /\ UNCHANGED <<cards, diag, word, n, pc, script, layout, stale, args,
                   written>>

\* the column's words are exhausted: on to the next column or page; the
\* cursor is not touched
NextColumn ==
    /\ pc = "reading"
    /\ col < 2 * Len(layout)
    /\ pos = Len(WordsOf[ColumnText])
    /\ col' = col + 1
    /\ pos' = 0
    /\ UNCHANGED <<cards, current_card, current_field, diag, word, n, pc,
                   script, layout, stale, args, written>>

NextPages == FeedColumn \/ NextColumn \/ EndOfInput

SpecPages == InitPages /\ [][NextPages]_vars

(***************************************************************************)
(* main: the extension check, parse_pdf and the output                     *)
(***************************************************************************)
UpperLetters == "ABCDEFGHIJKLMNOPQRSTUVWXYZ"

LowerLetters == "abcdefghijklmnopqrstuvwxyz"

\* the characters of s that occur in from replaced by those of to
RECURSIVE MapLetters(_, _, _)
MapLetters(s, from, to) ==
    IF s = "" THEN ""
    ELSE LET c == CharAt(s, 1)
             at == { i \in 1..Len(from) : CharAt(from, i) = c } IN
         (IF at = { } THEN c ELSE CharAt(to, CHOOSE i \in at : TRUE))
             \o MapLetters(SubSeq(s, 2, Len(s)), from, to)

\* str.lower and str.upper
Lower(s) == MapLetters(s, UpperLetters, LowerLetters)

Upper(s) == MapLetters(s, LowerLetters, UpperLetters)

\* str.rfind of one character, counted from 1 (0: not found)
RFind(s, c) ==
    LET at == { i \in 1..Len(s) : CharAt(s, i) = c } IN
    IF at = { } THEN 0 ELSE CHOOSE i \in at : \A j \in at : j <= i

\* os.path.splitext: the extension starts at the last dot of the last path
\* component, unless only dots come before it in that component
splitext(path) ==
    LET sepIndex == RFind(path, "/")
        dotIndex == RFind(path, ".") IN
    IF /\ dotIndex > sepIndex
       /\ \E i \in (sepIndex + 1)..(dotIndex - 1) : CharAt(path, i) # "."
    THEN << SubSeq(path, 1, dotIndex - 1), SubSeq(path, dotIndex, Len(path)) >>
    ELSE << path, "" >>

\* mutant: the extension is compared as it is written
check_output_extension_exact(output_file, output_type) ==
    LET ext == splitext(output_file)[2] IN
    IF output_type = "csv" /\ ext # ".csv" THEN "ValueError"
    ELSE IF output_type = "pdf" /\ ext # ".pdf" THEN "ValueError"
    ELSE "ok"

\* check_output_extension: "ValueError" when it raises, "ok" when it returns
check_output_extension(output_file, output_type) ==
    LET ext == Lower(splitext(output_file)[2]) IN
    IF output_type = "csv" /\ ext # ".csv" THEN "ValueError"
    ELSE IF output_type = "pdf" /\ ext # ".pdf" THEN "ValueError"
    ELSE "ok"

\* save_to_csv: one row per card, the card's to_dict
save_to_csv(cs, output_file) ==
    [ kind |-> "csv", file |-> output_file,
      rows |-> [ i \in 1..Len(cs) |-> to_dict(cs[i]) ] ]

\* save_to_pdf: one rendered template per card, its body the card's type
save_to_pdf(cs, output_file) ==
    [ kind |-> "pdf", file |-> output_file,
      rows |-> [ i \in 1..Len(cs) |-> [ body |-> cs[i].card_type ] ] ]

\* values of --out_file and of --output_type (argparse admits no other type)
OutFiles ==
    { "out.csv", "out.CSV", "out.pdf", "out.Pdf", "out", "out.txt",
      "out.csv.pdf", ".csv", "a.pdf/out", "d/.pdf" }

OutputTypes == { "csv", "pdf" }

\* a card whose headers come without text of their own
MainExample ==
    << "Type:", "SIT", "Ref:", "John", "3:16", "Club", "East",
       "Question:Who", "Answer:", "Yes" >>

MainDocs == SubSequences(MainExample) \cup { MainExample \o MainExample }

\* main after parse_args
InitMain ==
    /\ pc = "main"
    /\ args \in [ out_file : OutFiles, output_type : OutputTypes ]
    /\ script \in MainDocs
    /\ layout = << >>
    /\ written = NotWritten
    /\ cards = << >>
    /\ current_card = QuizCard
    /\ current_field = "none"
    /\ diag = << >>
    /\ word = ""
    /\ n = 0
    /\ col = 0
    /\ pos = 0
    /\ stale = { }

\* the call of check_output_extension: its ValueError ends the run, its
\* return is followed by the call of parse_pdf
CheckExtension ==
    /\ pc = "main"
    /\ pc' = IF check_output_extension(args.out_file, args.output_type) = "ok"
             THEN "reading"
             ELSE "error"
    /\ UNCHANGED <<cards, current_card, current_field, diag, word, n, script,
                   layout, col, pos, stale, args, written>>

\* the cards are saved in the selected format and the last line is printed
SaveOutput ==
    /\ pc = "done"
    /\ written' = IF args.output_type = "csv"
                  THEN save_to_csv(cards, args.out_file)
                  ELSE save_to_pdf(cards, args.out_file)
    /\ diag' = Append(diag, "Saved quiz cards to " \o args.out_file \o " as "
                                \o Upper(args.output_type))
    /\ pc' = "saved"
    /\ UNCHANGED <<cards, current_card, current_field, word, n, script,
                   layout, col, pos, stale, args>>

NextMain == CheckExtension \/ FeedScript \/ EndOfInput \/ SaveOutput

SpecMain == InitMain /\ [][NextMain]_vars

(***************************************************************************)
(* Properties                                                              *)
(***************************************************************************)
\* a step that consumes one word / the step that ends the input
WordStep == pc = "reading" /\ n' = n + 1
EndStep == pc = "reading" /\ pc' = "done"

\* type, ref, question and answer are all non-empty
Required(r) ==
    r.card_type # "" /\ r.ref # "" /\ r.question # "" /\ r.answer # ""

\* the text after the first k characters of a word
Suffix(w, k) == SubSeq(w, k + 1, Len(w))

\* C1: at each finalize point (a Type: word, end of input) the card in
\* progress is appended to cards if and only if its four required fields are
\* non-empty; hence every card in cards has them non-empty.
C1_EmitIffComplete ==
    /\ [](\A i \in 1..Len(cards) : Required(cards[i]))
    /\ [][ ((WordStep /\ StartsWith(word', "Type:")) \/ EndStep) =>
             IF Required(current_card)
             THEN cards' = Append(cards, current_card)
             ELSE cards' = cards ]_vars

\* one card was emitted by a Type: word and the last one dropped at the end
C1_Witness == pc = "done" /\ Len(cards) = 1 /\ diag # << >>

\* C3: a Type: word that finds the card in progress complete appends that
\* card (as it was) to cards, and the card in progress becomes a new card
\* holding only the word's suffix as its type.
C3_TypeOnCompleteEmitsThenStartsNew ==
    [][ (WordStep /\ StartsWith(word', "Type:") /\ Required(current_card)) =>
          /\ cards' = Append(cards, current_card)
          /\ current_card' =
                 [ card_type |-> Suffix(word', 5), ref |-> "",
                   extra_info |-> "", club |-> "", question |-> "",
                   answer |-> "" ] ]_vars

\* the fifth word is a Type: word and it emitted the four-word card before it
C3_Witness ==
    /\ pc = "reading" /\ n = 5 /\ word = "Type:SIT"
    /\ Len(cards) = 1 /\ cards[1].card_type = "SIT"
    /\ current_card = [QuizCard EXCEPT !.card_type = "SIT"]

\* C4: a Type: word that finds the card in progress incomplete appends
\* nothing to cards and keeps the same card, overwriting only its type with
\* the word's suffix.
C4_TypeOnIncompleteKeepsCard ==
    [][ (WordStep /\ StartsWith(word', "Type:") /\ ~Required(current_card)) =>
          /\ cards' = cards
          /\ current_card' =
                 [current_card EXCEPT !.card_type = Suffix(word', 5)] ]_vars

\* a Type: word has just overwritten the type of a card that keeps its ref
\* and question, and nothing was emitted
C4_Witness ==
    /\ pc = "reading" /\ word = "Type:SIT" /\ cards = << >>
    /\ current_card.card_type = "SIT"
    /\ current_card.ref = "Jn" /\ current_card.question = "Who"

\* C5: at end of input a card with an empty answer is not appended and the
\* Incomplete card message with its contents is printed; the last card is
\* printed exactly when it is not appended.
C5_EndReportsIffNotEmitted ==
    [][ EndStep =>
          LET msg == "Incomplete card: " \o CardStr(current_card) IN
          /\ current_card.answer = "" =>
                 cards' = cards /\ diag' = Append(diag, msg)
          /\ \/ cards' = Append(cards, current_card) /\ diag' = diag
             \/ cards' = cards /\ diag' = Append(diag, msg) ]_vars

\* the input ended on a card that has a question but no answer
C5_Witness ==
    /\ pc = "done" /\ cards = << >> /\ Len(diag) = 1
    /\ current_card.question = "Who" /\ current_card.answer = ""

\* the card the example of the specification must produce
ExampleCard ==
    [ card_type |-> "SIT", ref |-> "John 3:16", extra_info |-> "extra words",
      club |-> "East", question |-> "Who wrote this?", answer |-> "John" ]

\* C2: the example document, run to the end of input, yields exactly one
\* card: type SIT, ref "John 3:16", extra info "extra words", club "East",
\* question "Who wrote this?", answer "John".
C2_ExampleYieldsCard ==
    (pc = "done" /\ script = Example) => cards = <<ExampleCard>>

\* a word that starts with one of the header prefixes
HeaderPrefixed(w) ==
    \/ StartsWith(w, "Type:") \/ StartsWith(w, "Ref:") \/ StartsWith(w, "Club")
    \/ StartsWith(w, "Question:") \/ StartsWith(w, "Answer:")

\* C6: as long as no consumed word starts with a header prefix, the current
\* field is none, the card in progress is untouched and cards is empty, also
\* after the end of input.
C6_NoHeaderNoEffect ==
    (\A i \in 1..n : ~HeaderPrefixed(script[i])) =>
        /\ current_field = "none"
        /\ current_card = QuizCard
        /\ cards = << >>

\* a document of four header-free words, a chapter:verse word among them,
\* was read to its end
C6_Witness ==
    /\ pc = "done" /\ n = 4 /\ Len(script) = 4
    /\ \A i \in 1..n : ~HeaderPrefixed(script[i])
    /\ \E i \in 1..n : script[i] = "3:16"

\* empty, or words separated by single spaces with no space at either end
WellSpaced(t) ==
    \/ t = ""
    \/ /\ CharAt(t, 1) # " "
       /\ CharAt(t, Len(t)) # " "
       /\ \A i \in 1..(Len(t) - 1) :
              ~(CharAt(t, i) = " " /\ CharAt(t, i + 1) = " ")

CardWellSpaced(c) ==
    /\ WellSpaced(c.card_type) /\ WellSpaced(c.ref)
    /\ WellSpaced(c.extra_info) /\ WellSpaced(c.club)
    /\ WellSpaced(c.question) /\ WellSpaced(c.answer)

\* C7: every field of the card in progress and of every emitted card is
\* empty or single-space separated words with no leading space.
C7_FieldsWellSpaced ==
    /\ CardWellSpaced(current_card)
    /\ \A i \in 1..Len(cards) : CardWellSpaced(cards[i])

\* C8: from any state of the loop, the club field after Club: followed by
\* continuation words W equals the club field after Club followed by W.
C8_ClubFormsAgree ==
    pc = "reading" =>
        \A W \in SeqsUpTo(ContWords, MaxCont) :
            ProcessWords(Cursor, <<"Club:">> \o W).current_card.club =
                ProcessWords(Cursor, <<"Club">> \o W).current_card.club

\* the QuizCard attribute a value of current_field names
Attribute(field) == IF field = "type" THEN "card_type" ELSE field

EndsWith(s, suffix) ==
    /\ Len(s) >= Len(suffix)
    /\ SubSeq(s, Len(s) - Len(suffix) + 1, Len(s)) = suffix

\* C9: a word that begins with Club but is neither Club nor Club:... leaves
\* the current field as it is, leaves cards and every field that is not open
\* (the club among them) unchanged, and is appended to the open field.
C9_ClubhouseIsContinuation ==
    [][ ( /\ WordStep
          /\ StartsWith(word', "Club")
          /\ word' # "Club"
          /\ ~StartsWith(word', "Club:") ) =>
          /\ current_field' = current_field
          /\ cards' = cards
          /\ \A f \in DOMAIN current_card :
                 IF f = Attribute(current_field)
                 THEN /\ StartsWith(current_card'[f], current_card[f])
                      /\ EndsWith(current_card'[f], word')
                 ELSE current_card'[f] = current_card[f] ]_vars

\* C10: no card is appended to cards while one of its fields still holds
\* text accumulated before a Type: word that found the card incomplete.
C10_NoStaleFieldEmitted ==
    [][ Len(cards') > Len(cards) => stale = { } ]_vars

\* the cursor before the first word
FreshCursor ==
    [ cards |-> << >>, current_card |-> QuizCard, current_field |-> "none" ]

\* the words of the first c columns of the document, in reading order
RECURSIVE WordsOfColumns(_)
WordsOfColumns(c) ==
    IF c = 0 THEN << >>
    ELSE WordsOfColumns(c - 1)
             \o WordsOf[layout[((c - 1) \div 2) + 1][((c - 1) % 2) + 1]]

\* the words consumed so far, as one sequence without boundaries
ConsumedWords ==
    WordsOfColumns(col) \o
        (IF pos = 0 THEN << >> ELSE SubSeq(WordsOf[ColumnText], 1, pos))

\* C11: the cursor is carried unchanged across column and page boundaries
\* and an empty column adds no word: cursor and output depend only on the
\* overall word sequence, however it is split into pages and columns.
C11_SplitInvariant ==
    /\ pc = "reading" => Cursor = ProcessWords(FreshCursor, ConsumedWords)
    /\ pc = "done" =>
           LET st == ProcessWords(FreshCursor, ConsumedWords) IN
           cards = Finalize(st.cards, st.current_card, << >>).cards

\* one card whose words straddle a page boundary, an empty column and a
\* blank column was emitted as one card
C11_Witness ==
    /\ pc = "done"
    /\ layout = << <<"Type:SIT Ref:Jn", "">>,
                   <<" \n", "Question:Who  Answer:Yes">> >>
    /\ Len(cards) = 1
    /\ cards[1].ref = "Jn" /\ cards[1].answer = "Yes"

\* the whole word is digits, a colon, digits
IsVerse(w) ==
    \E i \in 2..(Len(w) - 1) :
        /\ CharAt(w, i) = ":"
        /\ \A j \in 1..Len(w) : j # i => CharAt(w, j) \in Digits

\* some part of the word is digits, a colon, digits
HasVerse(w) ==
    \E a \in 1..Len(w) : \E b \in a..Len(w) : IsVerse(SubSeq(w, a, b))

\* w was added at the end of the text
Extended(old, new, w) ==
    /\ StartsWith(new, old)
    /\ EndsWith(new, w)
    /\ Len(new) \in { Len(old) + Len(w), Len(old) + Len(w) + 1 }

\* the word was added to the open field and nothing else changed
AppendedToOpenField ==
    /\ current_field' = current_field
    /\ cards' = cards
    /\ \A f \in DOMAIN current_card :
           IF f = Attribute(current_field)
           THEN Extended(current_card[f], current_card'[f], word')
           ELSE current_card'[f] = current_card[f]

\* the word was added to ref, the current field became extra_info and
\* nothing else changed
ClosedTheReference ==
    /\ current_field' = "extra_info"
    /\ cards' = cards
    /\ \A f \in DOMAIN current_card :
           IF f = "ref"
           THEN Extended(current_card[f], current_card'[f], word')
           ELSE current_card'[f] = current_card[f]

\* a word arrives while ref is open and is neither a Type: nor a Ref: word
RefOpenStep ==
    /\ WordStep
    /\ current_field = "ref"
    /\ ~StartsWith(word', "Type:")
    /\ ~StartsWith(word', "Ref:")

\* C15 as stated: while ref is open, a word that is neither Type: nor Ref:
\* is appended to ref and switches the field to extra_info if and only if
\* the word is digits, colon, digits; no other word switches to extra_info.
C15_SwitchIffVerseToken ==
    [][ RefOpenStep =>
          /\ ClosedTheReference <=> IsVerse(word')
          /\ ~IsVerse(word') => current_field' # "extra_info" ]_vars

\* C15 amended: ... if and only if the word contains digits, colon, digits
\* somewhere (3:16, but also 3:16-17 or Answer:3:16).
C15_SwitchIffContainsVerse ==
    [][ RefOpenStep =>
          /\ ClosedTheReference <=> HasVerse(word')
          /\ ~HasVerse(word') => current_field' # "extra_info" ]_vars

\* a word that only contains a chapter:verse has closed the reference
C15_Witness ==
    /\ pc = "reading" /\ word = "3:16-17"
    /\ current_field = "extra_info"
    /\ current_card.ref = "Jn 3:16-17"

\* C16: a digits, colon, digits word that arrives while the current field
\* is not ref is appended to the open field (dropped if none); the current
\* field, ref, every other field and cards do not change.
C16_VerseElsewhereIsContinuation ==
    [][ (WordStep /\ IsVerse(word') /\ current_field # "ref") =>
          AppendedToOpenField ]_vars

\* 3:16 has been appended to the open question and ref is untouched
C16_Witness ==
    /\ pc = "reading" /\ word = "3:16" /\ current_field = "question"
    /\ current_card.question = "Who 3:16"
    /\ current_card.ref = "Jn"

\* the header changes only its own field, to the text after the prefix
HeaderSets(field, prefix) ==
    /\ current_field' = field
    /\ cards' = cards
    /\ current_card' =
           [current_card EXCEPT ![field] = Suffix(word', Len(prefix))]

\* the effect C17 claims for a word starting with Ref:, Club, Question: or
\* Answer: (a Type: word is rule 1)
HeaderEffect ==
    /\ StartsWith(word', "Ref:") => HeaderSets("ref", "Ref:")
    /\ StartsWith(word', "Club") => HeaderSets("club", "Club")
    /\ StartsWith(word', "Question:") => HeaderSets("question", "Question:")
    /\ StartsWith(word', "Answer:") => HeaderSets("answer", "Answer:")

\* C17 as stated: every word that starts with Ref:, Club, Question: or
\* Answer: makes its field the current one, replaces the field's text by the
\* word's suffix, and changes no other field and not cards.
C17_HeaderReplacesField ==
    [][ (WordStep /\ ~StartsWith(word', "Type:")) => HeaderEffect ]_vars

\* the verse rule takes the word before the rules for Club, Question: and
\* Answer: are tried
TakenByVerseRule ==
    /\ current_field = "ref"
    /\ HasVerse(word')
    /\ ~StartsWith(word', "Ref:")

\* C17 amended: ... unless the word contains digits, colon, digits while the
\* current field is ref and the word is not a Ref: word.
C17_HeaderReplacesFieldUnlessVerse ==
    [][ (WordStep /\ ~StartsWith(word', "Type:") /\ ~TakenByVerseRule) =>
          HeaderEffect ]_vars

\* a bare Question: header has set the question to its empty suffix and
\* type, ref and answer of the card stay
C17_Witness ==
    /\ pc = "reading" /\ word = "Question:"
    /\ current_field = "question" /\ current_card.question = ""
    /\ current_card.card_type = "SIT"
    /\ current_card.ref = "Jn" /\ current_card.answer = "Yes"

\* none of the tests of the if/elif chain accepts the word
PlainWordStep ==
    /\ WordStep
    /\ ~HeaderPrefixed(word')
    /\ ~(current_field = "ref" /\ HasVerse(word'))

TypePlaces(c) ==
    { p \in 1..Len(ConsumedWords) :
          ConsumedWords[p] = "Type:" \o c.card_type }

\* C14: a step leaves cards as it is or adds one card at its end, never
\* removing, moving or changing a card already there; and cards is in
\* reading order: an earlier card got its type from an earlier Type: word
\* (column 0 before column 1, pages in order) than a later card.
C14_AppendOnlyInReadingOrder ==
    /\ [](\A i \in 1..Len(cards) : \A j \in (i + 1)..Len(cards) :
              \E p \in TypePlaces(cards[i]) : \E q \in TypePlaces(cards[j]) :
                  p < q)
    /\ [][ /\ Len(cards') \in { Len(cards), Len(cards) + 1 }
           /\ SubSeq(cards', 1, Len(cards)) = cards ]_vars

\* a card started in column 0 and a card started in column 1 of the same
\* page were both returned, in that order
C14_Witness ==
    /\ pc = "done"
    /\ layout = << <<"Type:B Ref:Jn Question:Who\nAnswer:Yes", "Type:SIT">>,
                   <<"Ref:Jn\nQuestion:Who  Answer:Yes", "">> >>
    /\ Len(cards) = 2
    /\ cards[1].card_type = "B" /\ cards[2].card_type = "SIT"

\* number of consumed words that start with Type:
TypeCount ==
    Cardinality({ i \in 1..n : StartsWith(script[i], "Type:") })

\* C20: cards never holds more cards than Type: words were consumed, and
\* inside the loops, once a Type: word was consumed, it holds fewer.
C20_CardsBoundedByTypeWords ==
    /\ Len(cards) <= TypeCount
    /\ (pc = "reading" /\ TypeCount >= 1) => Len(cards) < TypeCount

\* a card was emitted inside the loops, by the second of two Type: words
C20_Witness ==
    /\ pc = "reading"
    /\ Len(cards) = 1
    /\ TypeCount = 2

\* the last card was kept, or it is incomplete and the one message names it
ReturnedQuietlyOrReported ==
    \/ /\ diag = << >>
       /\ Len(cards) >= 1
    \/ /\ diag = << "Incomplete card: " \o CardStr(current_card) >>
       /\ ~IsComplete(current_card)

\* C19: whatever the words of the document, each step of the loops
\* consumes exactly the next word, the function is only ever inside the
\* loops or returned, it does return, and it returns after the last word
\* with cards and at most one message, that of an incomplete last card.
C19_ConsumesAllAndReturns ==
    /\ [](pc \in { "reading", "done" })
    /\ [][ pc = "reading" =>
              \/ /\ n < Len(script)
                 /\ n' = n + 1
                 /\ word' = script[n + 1]
                 /\ pc' = "reading"
              \/ /\ n = Len(script)
                 /\ n' = n
                 /\ pc' = "done" ]_vars
    /\ [](pc = "done" => n = Len(script) /\ ReturnedQuietlyOrReported)
    /\ <>(pc = "done")

\* a document without any Type: word, headers repeated and out of order,
\* was consumed to its end and nothing was returned but the message
C19_Witness ==
    /\ pc = "done"
    /\ script = << "Answer:Yes", "Ref:Jn", "Ref:Jn", "3:16", "Question:Who" >>
    /\ cards = << >>
    /\ Len(diag) = 1

\* the path is a stem followed by a dot and the type, in any case of
\* letters, and the stem's last path component has a character that is no dot
ExtensionIs(path, type) ==
    LET stemLen == Len(path) - Len(type) - 1 IN
    /\ stemLen >= 1
    /\ Lower(SubSeq(path, stemLen + 1, Len(path))) = "." \o type
    /\ \E i \in 1..stemLen :
           /\ CharAt(path, i) # "."
           /\ \A j \in i..stemLen : CharAt(path, j) # "/"

\* C12: when the extension of the output path, in any case of letters, is
\* not that of the selected output type, the extension check ends the run
\* in an error, with no word parsed and nothing written, and the run takes
\* no further step; when it is, the check passes and parse_pdf starts.
C12_MismatchAbortsBeforeParse ==
    /\ [][ pc = "main" =>
              pc' = IF ExtensionIs(args.out_file, args.output_type)
                    THEN "reading"
                    ELSE "error" ]_vars
    /\ [](pc = "error" =>
              /\ n = 0
              /\ cards = << >>
              /\ diag = << >>
              /\ written = NotWritten)
    /\ [][ pc # "error" ]_vars
    /\ [](written # NotWritten =>
              ExtensionIs(args.out_file, args.output_type))

\* csv was selected for a path that ends in .pdf: the run ended in the error
C12_Witness ==
    /\ pc = "error"
    /\ args = [ out_file |-> "out.pdf", output_type |-> "csv" ]
    /\ script = MainExample

\* words of a text joined by single spaces
RECURSIVE JoinWords(_)
JoinWords(ws) ==
    IF ws = << >> THEN ""
    ELSE IF Len(ws) = 1 THEN ws[1]
    ELSE ws[1] \o " " \o JoinWords(Tail(ws))

FieldNames == { "card_type", "ref", "extra_info", "club", "question", "answer" }

\* the value written for a field of a row
Written(row, field) ==
    CASE field = "card_type" -> row.Type
      [] field = "ref" -> row.Ref
      [] field = "extra_info" -> row.ExtraInfo
      [] field = "club" -> row.Club
      [] field = "question" -> row.Question
      [] field = "answer" -> row.Answer

Stored(c, field) ==
    CASE field = "card_type" -> c.card_type
      [] field = "ref" -> c.ref
      [] field = "extra_info" -> c.extra_info
      [] field = "club" -> c.club
      [] field = "question" -> c.question
      [] field = "answer" -> c.answer

\* a word step leaves the words of a field as they are, adds the consumed
\* word after them, or replaces them by what follows a header in the word
WordsKeptInOrder(field) ==
    LET old == Split(Stored(current_card, field))
        new == Split(Stored(current_card', field)) IN
    \/ new = old
    \/ new = Append(old, word')
    \/ new = << >>
    \/ \E k \in 1..(Len(word') - 1) : new = << Suffix(word', k) >>

\* C13: every value of every row written for a card has no whitespace at
\* its ends and is the words of the card's field joined by single spaces,
\* the words of a field being accumulated in the order they were consumed.
C13_WrittenValuesTrimmedAndJoined ==
    /\ [](written.kind = "csv" =>
              /\ Len(written.rows) = Len(cards)
              /\ \A i \in 1..Len(cards) : \A field \in FieldNames :
                     LET v == Written(written.rows[i], field) IN
                     /\ v = JoinWords(Split(Stored(cards[i], field)))
                     /\ v = "" \/ /\ CharAt(v, 1) \notin Whitespace
                                  /\ CharAt(v, Len(v)) \notin Whitespace)
    /\ [][ WordStep => \A field \in FieldNames : WordsKeptInOrder(field) ]_vars

\* a card stored with a space in front of its fields was written trimmed
C13_Witness ==
    /\ pc = "saved"
    /\ written.kind = "csv"
    /\ Len(cards) = 1
    /\ cards[1].ref = " John 3:16"
    /\ written.rows[1].Ref = "John 3:16"
    /\ cards[1].answer = " Yes"
    /\ written.rows[1].Answer = "Yes"

====
